---- MODULE Spec2Model ----
(***************************************************************************)
(* The worker pool of src/src/Pool.js as a state machine.                  *)
(*                                                                         *)
(* The pool runs on one event loop: every action below is one macrotask    *)
(* (an API call, a worker signal, a timer expiry, a promise settlement     *)
(* with the whole chain of callbacks the settlement runs).                 *)
(*                                                                         *)
(* WorkerHandler, Promise and the debug port allocator are required by     *)
(* Pool.js; the pool sees a worker through exec, available, terminated,    *)
(* terminate, terminateAndNotify, debugPort and the two signals            *)
(* onWorkerReady and onWorkerExit.                                         *)
(***************************************************************************)
EXTENDS Integers, Sequences, FiniteSets, TLC

\* ------------------------------------------------------------ bounds
MaxTasks == 2         \* accepted exec submissions
MaxCreated == 4       \* WorkerHandlers constructed over the pool's life
MaxThrown == 1        \* submissions refused with the queue overflow error
MaxDisturbances == 2  \* crashes, cancel(), timeout(ms) and terminate() calls together

\* ------------------------------------------------------------ program constants
debugPortStart == 43210
Infinity == 1000000

\* ------------------------------------------------------------ construction options
\* An option that is absent is the empty sequence, a given one a sequence of
\* one value. minWorkers "max" is the value MinMax.
MinMax == -1

\* One worker that stalls, a queue of one.
OptSingle ==
  [maxWorkers |-> <<1>>, minWorkers |-> <<>>, maxQueueSize |-> <<1>>,
   gradualScaling |-> <<>>, roundrobin |-> FALSE, concurrency |-> 1, cpus |-> 2]
\* The same behind the gradual-scaling gate.
OptGated ==
  [maxWorkers |-> <<1>>, minWorkers |-> <<>>, maxQueueSize |-> <<1>>,
   gradualScaling |-> <<50>>, roundrobin |-> FALSE, concurrency |-> 1, cpus |-> 2]
\* maxWorkers left to the default max(cpus - 1, 1), round robin, workers that
\* take two calls at a time.
OptDefault ==
  [maxWorkers |-> <<>>, minWorkers |-> <<>>, maxQueueSize |-> <<1>>,
   gradualScaling |-> <<50>>, roundrobin |-> TRUE, concurrency |-> 2, cpus |-> 2]
\* Two workers, grown on demand behind the gate.
OptGrow ==
  [maxWorkers |-> <<2>>, minWorkers |-> <<>>, maxQueueSize |-> <<2>>,
   gradualScaling |-> <<50>>, roundrobin |-> FALSE, concurrency |-> 1, cpus |-> 2]
\* minWorkers "max".
OptMinMax ==
  [maxWorkers |-> <<1>>, minWorkers |-> <<MinMax>>, maxQueueSize |-> <<2>>,
   gradualScaling |-> <<>>, roundrobin |-> FALSE, concurrency |-> 2, cpus |-> 2]
\* One worker kept, a second grown behind the gate.
OptMinGrow ==
  [maxWorkers |-> <<2>>, minWorkers |-> <<1>>, maxQueueSize |-> <<2>>,
   gradualScaling |-> <<50>>, roundrobin |-> FALSE, concurrency |-> 1, cpus |-> 2]
\* minWorkers above maxWorkers, round robin, no queue limit.
OptMinAbove ==
  [maxWorkers |-> <<1>>, minWorkers |-> <<2>>, maxQueueSize |-> <<>>,
   gradualScaling |-> <<>>, roundrobin |-> TRUE, concurrency |-> 1, cpus |-> 2]

Options ==
  { OptSingle, OptGated, OptDefault, OptGrow, OptMinMax, OptMinGrow, OptMinAbove }

\* What exec, cancel and timeout are called with.
Affinities == { <<>>, <<0>>, <<1>>, <<-1>> }
Delays == { 50 }

VARIABLES
  maxWorkers, minWorkers, maxQueueSize, gradualScaling, roundrobin, concurrency,
  workers,          \* this.workers: worker ids, in list order
  tasks,            \* this.tasks: the queued task records, head first
  canCreateWorker,  \* this.canCreateWorker
  lastChosen,       \* this.lastChosen
  handlers,         \* every WorkerHandler constructed so far, by worker id
  allocated,        \* the ports DEBUG_PORT_ALLOCATOR holds
  futures,          \* every task's resolver.promise, by task id
  execLog,          \* the worker.exec calls made, in order
  scaled,           \* the workers created by the growth branch of _getWorker
  thrown,           \* number of "Max queue size of N reached" errors thrown
  disturbances,     \* number of crashes and of cancel, timeout and terminate calls
  terminateCalls    \* number of terminate() calls

cfgVars == <<maxWorkers, minWorkers, maxQueueSize, gradualScaling, roundrobin, concurrency>>
poolVars ==
  <<workers, tasks, canCreateWorker, lastChosen, handlers, allocated, futures, execLog,
    scaled>>
countVars == <<thrown, disturbances, terminateCalls>>
vars == <<cfgVars, poolVars, countVars>>

\* ------------------------------------------------------------ helpers
Max(a, b) == IF a >= b THEN a ELSE b

IndexOf(seq, x) ==
  IF \E i \in 1..Len(seq) : seq[i] = x
    THEN CHOOSE i \in 1..Len(seq) : seq[i] = x /\ \A j \in 1..(i - 1) : seq[j] # x
    ELSE 0

Splice(seq, i) == [j \in 1..(Len(seq) - 1) |-> IF j < i THEN seq[j] ELSE seq[j + 1]]

\* The mutable state of the pool and its collaborators as one record, so
\* that the methods of Pool compose as functions from state to state.
Cur ==
  [workers |-> workers, tasks |-> tasks, canCreateWorker |-> canCreateWorker,
   lastChosen |-> lastChosen, handlers |-> handlers, allocated |-> allocated,
   futures |-> futures, execLog |-> execLog, scaled |-> scaled]

Commit(s) ==
  /\ workers' = s.workers
  /\ tasks' = s.tasks
  /\ canCreateWorker' = s.canCreateWorker
  /\ lastChosen' = s.lastChosen
  /\ handlers' = s.handlers
  /\ allocated' = s.allocated
  /\ futures' = s.futures
  /\ execLog' = s.execLog
  /\ scaled' = s.scaled

\* ------------------------------------------------------------ collaborators
\* DebugPortAllocator (required at Pool.js line 4).
nextAvailableStartingAt(alloc, base) ==
  CHOOSE p \in base..(base + Cardinality(alloc)) :
    p \notin alloc /\ \A q \in base..(p - 1) : q \in alloc

releasePort(alloc, p) == alloc \ {p}

\* A WorkerHandler as the pool sees it.
\*   ready        the worker has signalled onWorkerReady
\*   terminated   worker.terminated
\*   processing   the tasks passed to worker.exec whose exec promise is unsettled
\*   exitPending  the worker died and its onWorkerExit signal is still to come
\*   cbExit       terminate(false, cb) calls of _removeWorker, made from
\*                onWorkerExit, whose cb is still to come
\*   cbChain      the same, made from the catch of _next's promise chain
\*   terminating  number of terminateAndNotify calls of Pool.terminate still
\*                unsettled
\*   onTerminateCalls  how often onTerminateWorker was invoked for this worker
NewHandler(port) ==
  [ready |-> FALSE, terminated |-> FALSE, processing |-> {}, debugPort |-> port,
   exitPending |-> FALSE, cbExit |-> 0, cbChain |-> 0, terminating |-> 0,
   onTerminateCalls |-> 0]

available(h) ==
  h.ready /\ ~h.terminated /\ Cardinality(h.processing) < concurrency

\* A fresh resolver.promise: Promise.defer().
\*   state  "pending", "resolved", "rejected" (by the worker), "cancelled",
\*          "timedout" or "terminated" (rejected with "Pool terminated")
\*   timer  the promise's native timeout timer is armed
NewFuture == [state |-> "pending", timer |-> FALSE]

\* resolve and reject settle a pending promise, which clears its timer, and
\* are no-ops afterwards.
Settle(f, to) ==
  IF f.state = "pending" THEN [state |-> to, timer |-> FALSE] ELSE f

\* ------------------------------------------------------------ Pool methods
\* Each takes the state record s and returns the state after the call.

\* Pool.prototype._createWorkerHandler: the new worker's id is its position
\* in handlers; the caller pushes it on workers.
_createWorkerHandler(s) ==
  LET port == nextAvailableStartingAt(s.allocated, debugPortStart)
  IN [s EXCEPT !.handlers = Append(@, NewHandler(port)),
               !.allocated = @ \cup {port}]

RECURSIVE _ensureMinWorkers_gated(_)
_ensureMinWorkers_gated(s) ==
  IF minWorkers # 0 /\ Len(s.workers) < minWorkers
       /\ (gradualScaling = 0 \/ s.canCreateWorker)
    THEN LET c == _createWorkerHandler(s)
         IN _ensureMinWorkers_gated([c EXCEPT !.workers = Append(@, Len(c.handlers))])
    ELSE s

RECURSIVE _ensureMinWorkers_closing(_)
_ensureMinWorkers_closing(s) ==
  IF minWorkers # 0 /\ Len(s.workers) < minWorkers
    THEN LET c == _createWorkerHandler(s)
         IN _ensureMinWorkers_closing([c EXCEPT !.workers = Append(@, Len(c.handlers)),
                                               !.canCreateWorker = FALSE])
    ELSE s

\* Pool.prototype._ensureMinWorkers.
RECURSIVE _ensureMinWorkers(_)
_ensureMinWorkers(s) ==
  IF minWorkers # 0 /\ Len(s.workers) < minWorkers
    THEN LET c == _createWorkerHandler(s)
         IN _ensureMinWorkers([c EXCEPT !.workers = Append(@, Len(c.handlers))])
    ELSE s

_removeWorkerFromList(s, w) ==
  LET index == IndexOf(s.workers, w)
  IN IF index # 0 THEN [s EXCEPT !.workers = Splice(@, index)] ELSE s

\* Pool.prototype._removeWorker up to the call of worker.terminate; the
\* callback of that call is the action TerminateCallback. chain tells whether
\* the call came from the catch of _next's chain, which waits for the result.
_removeWorker(s, w, chain) ==
  LET released == [s EXCEPT !.allocated = releasePort(@, s.handlers[w].debugPort)]
      removed == _removeWorkerFromList(released, w)
      ensured == _ensureMinWorkers(removed)
  IN IF chain
       THEN [ensured EXCEPT !.handlers[w].cbChain = @ + 1]
       ELSE [ensured EXCEPT !.handlers[w].cbExit = @ + 1]

belowMax_inclusive(s) == Len(s.workers) <= maxWorkers

belowMax_early(s) == Len(s.workers) + 1 < maxWorkers

\* Line 295: there is room for one more worker.
belowMax(s) == Len(s.workers) < maxWorkers

\* Line 277: the remainder operator of JavaScript, whose result has the sign
\* of the dividend.
remainder(a, n) == IF a >= 0 THEN a % n ELSE -((-a) % n)

rotate_stay(last, n) == Max(last, 0) % n

\* Line 282: ++this.lastChosen % workers.length.
rotate(last, n) == (last + 1) % n

\* Pool.prototype._getWorker: the state after the call, the chosen worker
\* (0 when the function returns undefined), and the worker list and
\* lastChosen the call started from.
_getWorker(s, affinity) ==
  LET ws == s.workers
      n == Len(ws)
      \* workers[affinity % workers.length]: undefined on an empty list and
      \* at a negative index
      byAffinity ==
        IF affinity # <<>> /\ n > 0 /\ remainder(affinity[1], n) >= 0
          THEN ws[remainder(affinity[1], n) + 1] ELSE 0
      useRR == byAffinity = 0 /\ roundrobin /\ n > 0
      last == IF useRR THEN rotate(s.lastChosen, n) ELSE s.lastChosen
      byRR == IF useRR THEN ws[last + 1] ELSE byAffinity
      byScan ==
        IF byRR # 0 THEN byRR
        ELSE IF \E i \in 1..n : available(s.handlers[ws[i]])
          THEN ws[CHOOSE i \in 1..n :
                    /\ available(s.handlers[ws[i]])
                    /\ \A j \in 1..(i - 1) : ~available(s.handlers[ws[j]])]
          ELSE 0
      s1 == [s EXCEPT !.lastChosen = last]
      grown(t) ==
        LET c == _createWorkerHandler(t)
            id == Len(c.handlers)
        IN [s |-> [c EXCEPT !.workers = Append(@, id), !.scaled = @ \cup {id}],
            chosen |-> IF byScan # 0 THEN byScan ELSE id,
            list |-> ws, prev |-> s.lastChosen]
      kept == [s |-> s1, chosen |-> byScan, list |-> ws, prev |-> s.lastChosen]
  IN IF belowMax(s1)
       THEN IF gradualScaling = 0
              THEN grown(s1)
              ELSE IF s1.canCreateWorker
                THEN grown([s1 EXCEPT !.canCreateWorker = FALSE])
                ELSE kept
       ELSE kept

Dispatch_requeue(s, task, w, sel) ==
  [s EXCEPT !.handlers[w].processing = @ \cup {task.id},
            !.execLog = Append(@, [task |-> task.id, worker |-> w,
                                   list |-> sel.list, prev |-> sel.prev,
                                   last |-> s.lastChosen]),
            !.futures[task.id].timer = (task.timeout # <<>>),
            !.tasks = Append(@, task)]

Dispatch_untimed(s, task, w, sel) ==
  [s EXCEPT !.handlers[w].processing = @ \cup {task.id},
            !.execLog = Append(@, [task |-> task.id, worker |-> w,
                                   list |-> sel.list, prev |-> sel.prev,
                                   last |-> s.lastChosen])]

\* worker.exec(task.method, task.params, task.resolver, task.options) and the
\* timer of lines 250-253. The call is logged with sel, the worker list and
\* lastChosen its _getWorker call started from, and the lastChosen it left.
Dispatch(s, task, w, sel) ==
  [s EXCEPT !.handlers[w].processing = @ \cup {task.id},
            !.execLog = Append(@, [task |-> task.id, worker |-> w,
                                   list |-> sel.list, prev |-> sel.prev,
                                   last |-> s.lastChosen]),
            !.futures[task.id].timer = (task.timeout # <<>>)]

stillPending_always(s, task) == TRUE

\* Line 235: the task taken from the queue is still pending.
stillPending(s, task) == s.futures[task.id].state = "pending"

RECURSIVE _next(_)
_next(s) ==
  IF Len(s.tasks) > 0
    THEN LET r == _getWorker(s, s.tasks[1].options.affinity)
         IN IF r.chosen # 0
              THEN LET task == r.s.tasks[1]
                       shifted == [r.s EXCEPT !.tasks = Tail(@)]
                   IN IF stillPending(shifted, task)
                        THEN Dispatch(shifted, task, r.chosen,
                                      [list |-> r.list, prev |-> r.prev])
                        ELSE _next(shifted)
              ELSE r.s
    ELSE s

\* ------------------------------------------------------------ construction
\* function Pool(script, options), lines 34-93.
Constructed(o) ==
  /\ maxQueueSize = IF o.maxQueueSize # <<>> THEN o.maxQueueSize[1] ELSE Infinity
  /\ gradualScaling = IF o.gradualScaling # <<>> THEN o.gradualScaling[1] ELSE 0
  /\ roundrobin = o.roundrobin
  /\ concurrency = o.concurrency
  /\ LET given == IF o.maxWorkers # <<>> THEN o.maxWorkers[1] ELSE Max(o.cpus - 1, 1)
     IN IF o.minWorkers = <<>>
          THEN maxWorkers = given /\ minWorkers = 0
          ELSE IF o.minWorkers[1] = MinMax
            THEN maxWorkers = given /\ minWorkers = given
            ELSE maxWorkers = Max(o.minWorkers[1], given) /\ minWorkers = o.minWorkers[1]
  /\ LET empty == [workers |-> <<>>, tasks |-> <<>>, canCreateWorker |-> TRUE,
                   lastChosen |-> -1, handlers |-> <<>>, allocated |-> {},
                   futures |-> <<>>, execLog |-> <<>>, scaled |-> {}]
         s == IF o.minWorkers # <<>> THEN _ensureMinWorkers(empty) ELSE empty
     IN /\ workers = s.workers
        /\ tasks = s.tasks
        /\ canCreateWorker = s.canCreateWorker
        /\ lastChosen = s.lastChosen
        /\ handlers = s.handlers
        /\ allocated = s.allocated
        /\ futures = s.futures
        /\ execLog = s.execLog
        /\ scaled = s.scaled

Init ==
  /\ \E o \in Options : Constructed(o)
  /\ thrown = 0
  /\ disturbances = 0
  /\ terminateCalls = 0

\* The state after a step, within the bound on constructed workers.
Step(s) == Len(s.handlers) <= MaxCreated /\ Commit(s)

\* ------------------------------------------------------------ actions
queueFull_early(s) == Len(s.tasks) + 1 >= maxQueueSize

\* Line 136: the queue holds maxQueueSize tasks.
queueFull(s) == Len(s.tasks) >= maxQueueSize

push_front(s, task) ==
  [s EXCEPT !.tasks = <<task>> \o @, !.futures = Append(@, NewFuture)]

\* Lines 134 and 141-149: a new task with a fresh resolver is pushed at the
\* tail of the queue.
push(s, task) ==
  [s EXCEPT !.tasks = Append(@, task), !.futures = Append(@, NewFuture)]

\* Pool.prototype.exec(method, params, options). isFn: method is a function,
\* which line 171 resubmits as exec("run", [String(method), params]).
Exec(isFn, affinity) ==
  LET method == IF isFn THEN "run" ELSE "m"
      options == IF isFn THEN [affinity |-> <<>>] ELSE [affinity |-> affinity]
      id == Len(futures) + 1
      task == [id |-> id, method |-> method, options |-> options, timeout |-> <<>>]
  IN IF queueFull(Cur)
       THEN /\ thrown < MaxThrown
            /\ thrown' = thrown + 1
            /\ UNCHANGED <<cfgVars, poolVars, disturbances, terminateCalls>>
       ELSE /\ Len(futures) < MaxTasks
            /\ Step(_next(push(Cur, task)))
            /\ UNCHANGED <<cfgVars, countVars>>

\* The promise returned by worker.exec settles, and the chain of lines
\* 239-248 runs: .then(_boundNext).catch(...).then(_next).
ExecSettle(w, t, ok) ==
  /\ w \in 1..Len(handlers)
  /\ t \in handlers[w].processing
  /\ ok => (handlers[w].ready /\ ~handlers[w].terminated)
  /\ LET settled ==
           [Cur EXCEPT !.handlers[w].processing = @ \ {t},
                       !.futures[t] = Settle(@, IF ok THEN "resolved" ELSE "rejected")]
     IN IF ok
          THEN Step(_next(_next(settled)))
          ELSE IF handlers[w].terminated
            THEN Step(_removeWorker(settled, w, TRUE))
            ELSE Step(_next(settled))
  /\ UNCHANGED <<cfgVars, countVars>>

\* onWorkerReady, lines 530-532.
WorkerReady(w) ==
  /\ w \in 1..Len(handlers)
  /\ ~handlers[w].ready /\ ~handlers[w].terminated
  /\ Step(_next([Cur EXCEPT !.handlers[w].ready = TRUE]))
  /\ UNCHANGED <<cfgVars, countVars>>

\* A worker dies: it is terminated from now on, its exec promises will
\* reject and it will signal onWorkerExit.
Crash(w) ==
  /\ w \in 1..Len(handlers)
  /\ ~handlers[w].terminated
  /\ disturbances < MaxDisturbances
  /\ disturbances' = disturbances + 1
  /\ handlers' = [handlers EXCEPT ![w].terminated = TRUE, ![w].ready = FALSE,
                                 ![w].exitPending = TRUE]
  /\ UNCHANGED <<cfgVars, workers, tasks, canCreateWorker, lastChosen, allocated,
                 futures, execLog, scaled, thrown, terminateCalls>>

\* onWorkerExit, lines 527-529.
WorkerExit(w) ==
  /\ w \in 1..Len(handlers)
  /\ handlers[w].exitPending
  /\ Step(_removeWorker([Cur EXCEPT !.handlers[w].exitPending = FALSE], w, FALSE))
  /\ UNCHANGED <<cfgVars, countVars>>

\* The callback of worker.terminate(false, cb), lines 381-392, and for a call
\* from the chain of _next the final .then of lines 246-248, which runs only
\* when the promise of _removeWorker resolved.
TerminateCallback(w, chain, err) ==
  /\ w \in 1..Len(handlers)
  /\ IF chain THEN handlers[w].cbChain > 0 ELSE handlers[w].cbExit > 0
  /\ LET called ==
           IF chain
             THEN [Cur EXCEPT !.handlers[w].cbChain = @ - 1,
                              !.handlers[w].onTerminateCalls = @ + 1]
             ELSE [Cur EXCEPT !.handlers[w].cbExit = @ - 1,
                              !.handlers[w].onTerminateCalls = @ + 1]
     IN IF chain /\ ~err THEN Step(_next(called)) ELSE Step(called)
  /\ UNCHANGED <<cfgVars, countVars>>

\* The timer of line 303 expires.
GateTimer ==
  /\ gradualScaling # 0
  /\ ~canCreateWorker
  /\ canCreateWorker' = TRUE
  /\ UNCHANGED <<cfgVars, workers, tasks, lastChosen, handlers, allocated, futures,
                 execLog, scaled, countVars>>

\* The caller cancels the future of task t.
Cancel(t) ==
  /\ t \in 1..Len(futures)
  /\ futures[t].state = "pending"
  /\ disturbances < MaxDisturbances
  /\ disturbances' = disturbances + 1
  /\ futures' = [futures EXCEPT ![t] = [state |-> "cancelled", timer |-> FALSE]]
  /\ UNCHANGED <<cfgVars, workers, tasks, canCreateWorker, lastChosen, handlers,
                 allocated, execLog, scaled, thrown, terminateCalls>>

\* resolver.promise.timeout(delay), lines 154-163.
Timeout(t, delay) ==
  /\ t \in 1..Len(futures)
  /\ disturbances < MaxDisturbances
  /\ disturbances' = disturbances + 1
  /\ IF \E i \in 1..Len(tasks) : tasks[i].id = t
       THEN /\ tasks' = [i \in 1..Len(tasks) |->
                           IF tasks[i].id = t
                             THEN [tasks[i] EXCEPT !.timeout = <<delay>>]
                             ELSE tasks[i]]
            /\ UNCHANGED futures
       ELSE /\ futures' = [futures EXCEPT ![t].timer = (futures[t].state = "pending")]
            /\ UNCHANGED tasks
  /\ UNCHANGED <<cfgVars, workers, canCreateWorker, lastChosen, handlers, allocated,
                 execLog, scaled, thrown, terminateCalls>>

\* An armed timeout timer expires.
TimerFire(t) ==
  /\ t \in 1..Len(futures)
  /\ futures[t].timer
  /\ futures' = [futures EXCEPT ![t] = [state |-> "timedout", timer |-> FALSE]]
  /\ UNCHANGED <<cfgVars, workers, tasks, canCreateWorker, lastChosen, handlers,
                 allocated, execLog, scaled, countVars>>

cancelPendingTasks_keepQueue(s) ==
  [s EXCEPT !.futures = [t \in 1..Len(s.futures) |->
                           IF \E i \in 1..Len(s.tasks) : s.tasks[i].id = t
                             THEN Settle(s.futures[t], "terminated")
                             ELSE s.futures[t]]]

\* Lines 422-426: every queued task is rejected with "Pool terminated" and
\* the queue is emptied.
cancelPendingTasks(s) ==
  [s EXCEPT !.futures = [t \in 1..Len(s.futures) |->
                           IF \E i \in 1..Len(s.tasks) : s.tasks[i].id = t
                             THEN Settle(s.futures[t], "terminated")
                             ELSE s.futures[t]],
            !.tasks = <<>>]

\* Lines 433-447: terminateAndNotify is called on every worker of the list.
notifyWorkers(s) ==
  [s EXCEPT !.handlers = [w \in 1..Len(s.handlers) |->
                            IF IndexOf(s.workers, w) # 0
                              THEN [s.handlers[w] EXCEPT !.terminating = @ + 1]
                              ELSE s.handlers[w]]]

\* Pool.prototype.terminate(force, timeout) up to the calls of
\* terminateAndNotify; their settlements are the action TerminateSettle. The
\* pool hands force and timeout to the workers and reads neither.
Terminate ==
  /\ disturbances < MaxDisturbances
  /\ disturbances' = disturbances + 1
  /\ terminateCalls' = terminateCalls + 1
  /\ Step(notifyWorkers(cancelPendingTasks(Cur)))
  /\ UNCHANGED <<cfgVars, thrown>>

\* A terminateAndNotify promise settles and lines 438-445 run:
\* .then(removeWorker).always(onTerminateWorker). ok: the worker has ended
\* (with force, also while it is processing tasks); otherwise the promise
\* rejected, as it does on the deadline.
TerminateSettle(w, ok) ==
  /\ w \in 1..Len(handlers)
  /\ handlers[w].terminating > 0
  /\ LET notified == [Cur EXCEPT !.handlers[w].terminating = @ - 1,
                                 !.handlers[w].onTerminateCalls = @ + 1]
     IN IF ok
          THEN Step(_removeWorkerFromList(
                      [notified EXCEPT !.handlers[w].terminated = TRUE,
                                       !.handlers[w].ready = FALSE], w))
          ELSE Step(notified)
  /\ UNCHANGED <<cfgVars, countVars>>

Next ==
  \/ \E isFn \in BOOLEAN, affinity \in Affinities : Exec(isFn, affinity)
  \/ \E w \in 1..MaxCreated, t \in 1..MaxTasks, ok \in BOOLEAN : ExecSettle(w, t, ok)
  \/ \E w \in 1..MaxCreated : WorkerReady(w)
  \/ \E w \in 1..MaxCreated : Crash(w)
  \/ \E w \in 1..MaxCreated : WorkerExit(w)
  \/ \E w \in 1..MaxCreated, chain \in BOOLEAN, err \in BOOLEAN :
       TerminateCallback(w, chain, err)
  \/ GateTimer
  \/ \E t \in 1..MaxTasks : Cancel(t)
  \/ \E t \in 1..MaxTasks, delay \in Delays : Timeout(t, delay)
  \/ \E t \in 1..MaxTasks : TimerFire(t)
  \/ Terminate
  \/ \E w \in 1..MaxCreated, ok \in BOOLEAN : TerminateSettle(w, ok)

Spec == Init /\ [][Next]_vars

\* The event loop runs every callback that is due: each exec promise
\* settles, each worker signals ready or exit, each terminate callback and
\* each timer fires. Submissions, cancellations, crashes and terminate calls
\* are the environment's and may never come.
Fairness ==
  /\ \A w \in 1..MaxCreated, t \in 1..MaxTasks :
       WF_vars(\E ok \in BOOLEAN : ExecSettle(w, t, ok))
  /\ \A w \in 1..MaxCreated : WF_vars(WorkerReady(w))
  /\ \A w \in 1..MaxCreated : WF_vars(WorkerExit(w))
  /\ \A w \in 1..MaxCreated, chain \in BOOLEAN :
       WF_vars(\E err \in BOOLEAN : TerminateCallback(w, chain, err))
  /\ \A w \in 1..MaxCreated : WF_vars(\E ok \in BOOLEAN : TerminateSettle(w, ok))
  /\ \A t \in 1..MaxTasks : WF_vars(TimerFire(t))
  /\ WF_vars(GateTimer)

\* The pool of OptGated alone, under fair scheduling.
InitGated ==
  /\ Constructed(OptGated)
  /\ thrown = 0
  /\ disturbances = 0
  /\ terminateCalls = 0

FairSpec == InitGated /\ [][Next]_vars /\ Fairness

\* ------------------------------------------------------------ properties
Dispatched(log, t) == \E i \in 1..Len(log) : log[i].task = t

InQueue(q, t) == \E i \in 1..Len(q) : q[i].id = t

InList(w) == IndexOf(workers, w) # 0

\* C1: in every reachable state the worker list holds at most maxWorkers
\* workers, maxWorkers being at least minWorkers.
WorkersWithinMax == Len(workers) <= maxWorkers /\ minWorkers <= maxWorkers

\* The pool built with minWorkers 2 above maxWorkers 1 is at its raised cap
\* of two workers after one of them crashed and was replaced.
WorkersAtMaxAfterReplacement ==
  /\ roundrobin /\ minWorkers = 2 /\ maxWorkers = 2
  /\ Len(workers) = 2 /\ Len(handlers) = 3
  /\ \E w \in 1..Len(handlers) : handlers[w].terminated /\ ~InList(w)

\* C2: under fair scheduling, on a pool that is not terminated, every
\* pending task future is eventually settled (a run that has used up the
\* model's MaxCreated workers is let off).
EveryTaskSettles ==
  \A t \in 1..MaxTasks :
    (t <= Len(futures) /\ futures[t].state = "pending")
      ~> (\/ t <= Len(futures) /\ futures[t].state # "pending"
          \/ terminateCalls > 0
          \/ Len(handlers) >= MaxCreated)

\* C3: the tasks passed to worker.exec are passed in the order of their
\* submission.
FifoDispatch ==
  \A i, j \in 1..Len(execLog) : i < j => execLog[i].task < execLog[j].task

\* Two tasks were passed, one after the other, to the one worker of the pool
\* built with minWorkers "max", which queues tasks until the worker is ready.
TwoDispatchedToSameWorker ==
  /\ Len(execLog) = 2
  /\ execLog[1].worker = execLog[2].worker
  /\ minWorkers = 1 /\ maxWorkers = 1

\* No worker can be chosen for the head of the queue of state s.
Stalled(s) ==
  s.tasks = <<>> \/ _getWorker(s, s.tasks[1].options.affinity).chosen = 0

\* C4: a task whose future is no longer pending while it is queued is never
\* passed to worker.exec; the step that drops it from the queue goes on to
\* the task behind it, which stays queued only if no worker can be chosen.
CancelledNeverExecuted ==
  [][\A t \in 1..Len(futures) :
       /\ (futures[t].state # "pending" /\ ~Dispatched(execLog, t))
            => ~Dispatched(execLog', t)
       /\ (/\ InQueue(tasks, t) /\ ~InQueue(tasks', t)
           /\ ~Dispatched(execLog', t) /\ terminateCalls' = terminateCalls)
            => Stalled(Cur')]_vars

\* Task 1 was cancelled in the queue and dropped, and task 2 behind it was
\* passed to a worker.
CancelledDroppedNextDispatched ==
  /\ Len(futures) = 2
  /\ futures[1].state = "cancelled"
  /\ ~Dispatched(execLog, 1) /\ ~InQueue(tasks, 1)
  /\ Dispatched(execLog, 2)
  /\ terminateCalls = 0

SettledTerminationRemoves ==
  [][\A w \in 1..Len(handlers) :
       handlers'[w].terminating < handlers[w].terminating =>
         /\ IndexOf(workers', w) = 0
         /\ handlers'[w].onTerminateCalls = handlers[w].onTerminateCalls + 1]_vars

\* C7, on a pool on which terminate() is not called: onTerminateWorker is
\* invoked at most once for each worker, also for one removed after a crash.
OnTerminateAtMostOnce ==
  terminateCalls = 0 =>
    \A w \in 1..Len(handlers) : handlers[w].onTerminateCalls <= 1

\* C8: a submission that throws the queue overflow error was made on a full
\* queue and changes neither the queue nor the worker list, no task is
\* accepted on a full queue, and the queue never holds more than
\* maxQueueSize tasks.
OverflowLeavesPoolUnchanged ==
  /\ [](Len(tasks) <= maxQueueSize)
  /\ [][/\ thrown' # thrown =>
             /\ Len(tasks) >= maxQueueSize
             /\ tasks' = tasks /\ workers' = workers /\ futures' = futures
        /\ Len(futures') > Len(futures) => Len(tasks) < maxQueueSize]_vars

\* A submission was refused on a full queue.
OverflowThrown == thrown > 0 /\ Len(tasks) = maxQueueSize

\* A fresh pool of one worker and a queue of one, on which nothing but
\* submissions and the worker's ready signal has happened.
FreshStalled ==
  /\ maxWorkers = 1 /\ maxQueueSize = 1 /\ minWorkers = 0
  /\ disturbances = 0
  /\ \A t \in 1..Len(futures) : futures[t].state = "pending"

Submissions == Len(futures) + thrown

\* C9 as stated: of two submissions in a row the second throws.
SecondSubmissionThrows ==
  (FreshStalled /\ Submissions = 2) => thrown = 1

\* C9 as amended: the first task is passed to the new worker at once, so the
\* second submission finds the queue empty and is accepted; the overflow
\* error is thrown only by a submission made while one task waits in the
\* queue, the third at the earliest.
ThirdSubmissionThrows ==
  FreshStalled =>
    /\ Submissions <= 2 => thrown = 0
    /\ Len(futures) >= 1 => Dispatched(execLog, 1)
    /\ thrown > 0 => (Len(tasks) = 1 /\ Submissions >= 3)

\* The worker takes one call at a time: the second task waits and the third
\* submission was refused.
ThirdRefused ==
  /\ FreshStalled /\ concurrency = 1 /\ ~roundrobin
  /\ Submissions = 3 /\ thrown = 1
  /\ Len(tasks) = 1 /\ tasks[1].id = 2

\* C10: as long as terminate() has not been called the worker list holds at
\* least minWorkers workers, in every state and whatever the gate says.
MinWorkersKept == terminateCalls = 0 => Len(workers) >= minWorkers

\* A crashed worker was replaced while the gradual-scaling gate was closed.
ReplacedBehindClosedGate ==
  /\ terminateCalls = 0
  /\ minWorkers = 1 /\ gradualScaling # 0 /\ ~canCreateWorker
  /\ Len(workers) = 1 /\ Len(handlers) = 3
  /\ \A w \in 1..2 : handlers[w].terminated /\ ~InList(w)

\* C11: each task is passed to worker.exec at most once, is processed by no
\* worker but the one it was passed to, and is never in the queue again
\* once it has been passed to a worker.
DispatchedAtMostOnce ==
  /\ \A i, j \in 1..Len(execLog) : i # j => execLog[i].task # execLog[j].task
  /\ \A t \in 1..Len(futures) : Dispatched(execLog, t) => ~InQueue(tasks, t)
  /\ \A w \in 1..Len(handlers) : \A t \in handlers[w].processing :
       \E i \in 1..Len(execLog) : execLog[i].task = t /\ execLog[i].worker = w

\* Task 1 was passed to a worker that crashed, was removed and replaced; the
\* task was rejected, and task 2 went to the replacement.
CrashedWorkersTaskNotRetried ==
  /\ Len(execLog) = 2 /\ execLog[1].task = 1 /\ execLog[2].task = 2
  /\ handlers[execLog[1].worker].terminated /\ ~InList(execLog[1].worker)
  /\ handlers[execLog[1].worker].processing = {}
  /\ futures[1].state = "rejected"
  /\ execLog[2].worker # execLog[1].worker /\ InList(execLog[2].worker)
  /\ minWorkers > 0

\* C13: with gradualScaling > 0, a step creates at most one worker by the
\* growth branch of _getWorker, finds the gate open and leaves it closed;
\* the gate opens again only by the expiry of the timer, a step that does
\* nothing else; so a timer expiry lies between any two such creations.
\* Creations by _ensureMinWorkers leave the gate as it is.
GrowthOncePerWindow ==
  [][gradualScaling # 0 =>
       /\ scaled \subseteq scaled'
       /\ scaled' # scaled =>
            /\ Cardinality(scaled' \ scaled) = 1
            /\ canCreateWorker /\ ~canCreateWorker'
       /\ (scaled' = scaled /\ canCreateWorker' # canCreateWorker) =>
            /\ ~canCreateWorker /\ canCreateWorker'
            /\ UNCHANGED <<workers, tasks, lastChosen, handlers, allocated, futures,
                           execLog, countVars>>]_vars

\* Two workers were created by the growth branch and, in between, one by
\* _ensureMinWorkers after both workers of the list had crashed.
GrownTwiceAroundReplacement ==
  /\ gradualScaling # 0 /\ minWorkers = 1
  /\ Len(handlers) = 4 /\ scaled = {2, 4}

\* A timeout(ms) call: the only step that spends a disturbance and changes
\* no worker, no future's state and no terminate count.
TimeoutCall ==
  /\ disturbances' = disturbances + 1
  /\ handlers' = handlers /\ terminateCalls' = terminateCalls
  /\ \A t \in 1..Len(futures) : futures'[t].state = futures[t].state

\* C14: a timeout(ms) call on a queued task records the delay in the task
\* and starts no timer; no queued task has a timer running or has timed
\* out; a task passed to a worker gets its timer armed in that step exactly
\* if a delay was recorded; a timeout(ms) call on a pending task that is no
\* longer queued arms the timer in that step.
QueuedTimeoutDeferred ==
  /\ [](\A t \in 1..Len(futures) :
          InQueue(tasks, t) => (~futures[t].timer /\ futures[t].state # "timedout"))
  /\ [][TimeoutCall =>
          /\ \A t \in 1..Len(futures) :
               /\ InQueue(tasks, t) => futures'[t] = futures[t]
               /\ futures'[t] # futures[t] =>
                    (Dispatched(execLog, t) /\ futures[t].state = "pending"
                       /\ futures'[t].timer)
          /\ tasks' # tasks =>
               /\ futures' = futures /\ Len(tasks') = Len(tasks)
               /\ \A i \in 1..Len(tasks) :
                    \/ tasks'[i] = tasks[i]
                    \/ \E d \in Delays : tasks'[i] = [tasks[i] EXCEPT !.timeout = <<d>>]]_vars
  /\ [][\A t \in 1..Len(futures') :
          (Dispatched(execLog', t) /\ ~Dispatched(execLog, t)) =>
            futures'[t].timer =
              (\E i \in 1..Len(tasks) : tasks[i].id = t /\ tasks[i].timeout # <<>>)]_vars

\* timeout(50) was called on task 1 after it was passed to a worker, which
\* armed its timer, and on task 2 in the queue, which only recorded the delay.
ArmedAfterDispatchDeferredInQueue ==
  /\ Len(futures) = 2 /\ disturbances = 2
  /\ Dispatched(execLog, 1) /\ futures[1].state = "pending" /\ futures[1].timer
  /\ Len(tasks) = 1 /\ tasks[1].id = 2 /\ tasks[1].timeout = <<50>>
  /\ futures[2].state = "pending" /\ ~futures[2].timer

\* The task passed to a worker in this step carries the affinity a: it was
\* queued with it, or this step is its submission by name with options a,
\* or a is none and this step is the submission of a callable.
Carries(t, a) ==
  IF InQueue(tasks, t)
    THEN \E i \in 1..Len(tasks) : tasks[i].id = t /\ tasks[i].options.affinity = a
    ELSE Exec(FALSE, a) \/ (a = <<>> /\ \E b \in Affinities : Exec(TRUE, b))

\* a mod n, as an index of a list of n.
Pinned(list, a) == list[(a % Len(list)) + 1]

\* A task that carries an affinity a of the set and is passed to a worker
\* while the worker list is not empty goes to workers[a mod |workers|] of the
\* list as its _getWorker call found it; and a task submitted with such an
\* affinity on an empty queue and a non-empty worker list is passed to that
\* worker in the same step, available or not, round robin or not.
PinsEach(affinities) ==
  \A a \in affinities :
    /\ \A i \in (Len(execLog) + 1)..Len(execLog') :
         (Carries(execLog'[i].task, a) /\ execLog'[i].list # <<>>) =>
           execLog'[i].worker = Pinned(execLog'[i].list, a[1])
    /\ (Exec(FALSE, a) /\ Len(futures') > Len(futures)
          /\ tasks = <<>> /\ workers # <<>>) =>
         /\ Len(execLog') = Len(execLog) + 1
         /\ execLog'[Len(execLog')].task = Len(futures')
         /\ execLog'[Len(execLog')].worker = Pinned(workers, a[1])

\* C12: every task that carries an affinity is pinned in this way.
AffinityPins == [][PinsEach(Affinities \ { <<>> })]_vars

\* The same for the affinities from 0 on, which the pool does pin.
AffinityPinsFromZero ==
  [][PinsEach({ a \in Affinities : a # <<>> /\ a[1] >= 0 })]_vars

\* The task that exec("run", [String(method), params], options) queues.
RunTask(affinity) ==
  [id |-> Len(futures) + 1, method |-> "run", options |-> [affinity |-> affinity],
   timeout |-> <<>>]

\* C15: a step that accepts a callable submitted with the options a is the
\* step that accepts the method name "run" with the options a: the same
\* task is queued and the same worker selected for it.
CallableKeepsOptions ==
  [][\A a \in Affinities :
       (Exec(TRUE, a) /\ Len(futures') > Len(futures)) =>
         Commit(_next(push(Cur, RunTask(a))))]_vars

\* C16: the workers of the worker list hold pairwise distinct debug ports.
PortsDistinct ==
  \A i, j \in 1..Len(workers) :
    i # j => handlers[workers[i]].debugPort # handlers[workers[j]].debugPort

\* Nothing is in flight: no worker is starting, processing, exiting or being
\* terminated, and no timer is running.
Quiescent ==
  /\ \A w \in 1..Len(handlers) :
       /\ handlers[w].ready \/ handlers[w].terminated
       /\ handlers[w].processing = {} /\ ~handlers[w].exitPending
       /\ handlers[w].cbExit = 0 /\ handlers[w].cbChain = 0
       /\ handlers[w].terminating = 0
  /\ \A t \in 1..Len(futures) : ~futures[t].timer
  /\ gradualScaling = 0 \/ canCreateWorker

\* C17, on a pool on which terminate() is not called: in a quiescent state
\* the queue holds exactly the tasks whose future is pending and that have
\* not been passed to a worker.
QueueHoldsPendingUndispatched ==
  (Quiescent /\ terminateCalls = 0) =>
    \A t \in 1..Len(futures) :
      InQueue(tasks, t) <=> (futures[t].state = "pending" /\ ~Dispatched(execLog, t))

\* C18, on a pool that never received a submission: once terminate() has
\* been called no step creates a worker.
NoWorkerAfterTerminate ==
  [][(terminateCalls > 0 /\ Len(futures') = 0 /\ thrown' = 0) =>
       Len(handlers') = Len(handlers)]_vars

\* C19, for an exec call that failed on a crashed worker: the step in which
\* the terminate callback of the _removeWorker call made by the chain comes
\* is a step that runs _next, whatever the callback reports.
ChainCallbackAdvances ==
  [][\A w \in 1..Len(handlers) :
       handlers'[w].cbChain < handlers[w].cbChain =>
         Commit(_next([Cur EXCEPT !.handlers[w].cbChain = @ - 1,
                                  !.handlers[w].onTerminateCalls = @ + 1]))]_vars

HandedAtOnce(isFn, a) ==
  (Exec(isFn, a) /\ workers # <<>> /\ tasks = <<>>) =>
    /\ thrown' = thrown
    /\ tasks' = <<>>
    /\ Len(execLog') = Len(execLog) + 1
    /\ execLog'[Len(execLog')].task = Len(futures')

\* C21: every submission with an affinity, and every submission to a pool
\* with roundrobin, is handed over at once in this way, whether or not a
\* worker is available or can be created.
SubmissionNeverWaits ==
  [][\A isFn \in BOOLEAN, a \in Affinities :
       (a # <<>> \/ roundrobin) => HandedAtOnce(isFn, a)]_vars

\* The same for the submissions the pool does hand over at once: those by
\* method name with an affinity from 0 on, and all those to a pool with
\* roundrobin.
NamedSubmissionNeverWaits ==
  [][\A isFn \in BOOLEAN, a \in Affinities :
       (roundrobin \/ (~isFn /\ a # <<>> /\ a[1] >= 0)) => HandedAtOnce(isFn, a)]_vars

====
